---- MODULE Spec2Model ----
(***************************************************************************)
(* Model of libkson's pulse-indexed graph utilities:                       *)
(*   include/kson/util/graph_utils.hpp  (GraphSectionAt,                   *)
(*       GraphSectionValueAt, GraphSectionValueAtWithDefault, GraphPointAt)*)
(*   src/util/graph_curve.cpp           (EvaluateCurve, ExpandCurveSegments)*)
(*                                                                         *)
(* Doubles are modelled as fixed-point integers in units of 1/Scale.       *)
(* std::map<Pulse, T> is modelled as a function whose DOMAIN is the key    *)
(* set; an iterator is None (end()) or Some(key).                          *)
(***************************************************************************)
EXTENDS Integers, FiniteSets, Sequences, TLC

VARIABLES
    graphSections,        \* ByPulse<GS>: the outer timeline of sections queried
    op,                   \* the query last applied to graphSections
    pulse,                \* its pulse argument
    defaultValue,         \* its defaultValue argument (WithDefault only)
    ret,                  \* its return value
    shape,                \* which ExpandCurveSegments overload is running
    graph,                \* its container argument: [v |-> points, w |-> width]
    subdivisionInterval,  \* its interval argument
    result,               \* its local `result`
    itr,                  \* its local `itr`
    ry,                   \* the inner for-loop's `ry`
    pc,                   \* position inside ExpandCurveSegments
    pass,                 \* 1 for a call on a drawn container, 2 for the call on its result
    curveArgs,            \* the arguments of the EvaluateCurve call made
    json,                 \* ParseLaserSection's argument j
    itemIdx,              \* index of the item its loop handles next
    warnings,             \* chartData.warnings
    parsePc               \* position inside ParseLaserSection

vars == <<graphSections, op, pulse, defaultValue, ret,
          shape, graph, subdivisionInterval, result, itr, ry, pc, pass,
          curveArgs, json, itemIdx, warnings, parsePc>>

lookupVars == <<graphSections, op, pulse, defaultValue, ret>>
expandVars == <<shape, graph, subdivisionInterval, result, itr, ry, pc, pass>>
parseVars == <<json, itemIdx, warnings, parsePc>>

----------------------------------------------------------------------------
(* Bounds *)

Scale == 100          \* fixed-point resolution: 1.0 is represented by Scale
MaxPulse == 4         \* query pulses range over 0..MaxPulse
MaxRelKey == 1        \* relative keys of a section range over MinRelKey..MaxRelKey
MaxKey == 4           \* keys of an expanded container range over 0..MaxKey
MaxInterval == 3      \* subdivision intervals range over -1..MaxInterval

MinRelKey == 0 - 1
OuterKeys == {1, 3}
Defaults == {0, 7 * Scale}

----------------------------------------------------------------------------
(* std::optional / iterators *)

None == [has |-> FALSE]
Some(x) == [has |-> TRUE, val |-> x]

SetMin(S) == CHOOSE x \in S : \A y \in S : x <= y
SetMax(S) == CHOOSE x \in S : \A y \in S : y <= x

\* std::map::begin(): the smallest key, end() for an empty map
Begin(m) == IF DOMAIN m = {} THEN None ELSE Some(SetMin(DOMAIN m))

\* std::map::upper_bound(p): the first key strictly greater than p
UpperBound(m, p) ==
    LET above == {k \in DOMAIN m : k > p}
    IN  IF above = {} THEN None ELSE Some(SetMin(above))

\* operator-- on an iterator that is not begin()
Prev(m, it) ==
    LET below == IF it.has THEN {k \in DOMAIN m : k < it.val} ELSE DOMAIN m
    IN  Some(SetMax(below))

\* std::next on an iterator that is not end()
NextItr(m, it) == UpperBound(m, it.val)

----------------------------------------------------------------------------
(* Points *)

Linear == [a |-> 0, b |-> 0]

\* GraphCurveValue::isLinear
isLinear(curve) == curve.a = 0 /\ curve.b = 0

\* GraphValue(double): both fields equal
GraphValue(x) == [v |-> x, vf |-> x]

\* GraphPoint(GraphValue): the curve defaults to the linear sentinel
GraphPoint(gv) == [v |-> gv, curve |-> Linear]

PA == [v |-> [v |-> 0, vf |-> 0], curve |-> Linear]
PB == [v |-> [v |-> Scale, vf |-> 3 * Scale],
       curve |-> [a |-> Scale \div 5, b |-> (4 * Scale) \div 5]]
PC == [v |-> [v |-> 2 * Scale, vf |-> Scale], curve |-> Linear]

Points == {PA, PB, PC}

\* every std::map with keys in K and values in V
Maps(K, V) == UNION {[D -> V] : D \in SUBSET K}

----------------------------------------------------------------------------
(* Fixed-point arithmetic standing for the double operations *)

\* n / d rounded towards minus infinity, d # 0
FDiv(n, d) == IF d > 0 THEN n \div d ELSE (0 - n) \div (0 - d)

\* std::clamp
Clamp(x, lo, hi) == IF x < lo THEN lo ELSE IF x > hi THEN hi ELSE x

\* the rounded-down root of a number v with 0 <= v <= Scale^2
Root(v) == CHOOSE s \in 0..Scale : s * s <= v /\ v < (s + 1) * (s + 1)

\* std::sqrt of r / Scale^2, in units of 1/Scale, for 0 <= r <= Scale^2
\* (r is evaluated once, then its root is searched)
Sqrt(r) == CHOOSE s \in {Root(v) : v \in {r}} : TRUE

\* std::lerp(a, b, t) = a + t (b - a), t in units of 1/Scale
Lerp(a, b, t) == a + FDiv(t * (b - a), Scale)

\* AlmostEquals(a, 0.5)
AlmostEqualsHalf(a) == 2 * a = Scale

\* static_cast<double>(ry) / static_cast<double>(segmentLength)
Rate(n, d) == FDiv(n * Scale, d)

\* the discriminant with the factor a dropped from its last term: a^2 + x - 2x
Discriminant_lastTermWithoutA(a, x) == a * a + x * Scale - 2 * Scale * x

\* const double discriminant = a * a + x - 2.0 * a * x, of the clamped a and x,
\* in units of 1/Scale^2
Discriminant(a, x) == a * a + x * Scale - 2 * a * x

\* EvaluateCurve returning a instead of x when a is 0.5
EvaluateCurve3_halfReturnsA(a0, b0, x0) ==
    LET a == Clamp(a0, 0, Scale)
        b == Clamp(b0, 0, Scale)
        x == Clamp(x0, 0, Scale)
        discriminant == Discriminant(a, x)
        t == FDiv((a - Sqrt(discriminant)) * Scale, 2 * a - Scale)
        res == FDiv(2 * (Scale - t) * t * b, Scale * Scale) + FDiv(t * t, Scale)
    IN  IF AlmostEqualsHalf(a) THEN a
        ELSE IF discriminant < 0 THEN x
        ELSE Clamp(res, 0, Scale)

\* EvaluateCurve with the other root: t = (a + sqrt(...)) / (-1 + 2a)
EvaluateCurve3_plusSqrt(a0, b0, x0) ==
    LET a == Clamp(a0, 0, Scale)
        b == Clamp(b0, 0, Scale)
        x == Clamp(x0, 0, Scale)
        discriminant == Discriminant(a, x)
        t == FDiv((a + Sqrt(discriminant)) * Scale, 2 * a - Scale)
        res == FDiv(2 * (Scale - t) * t * b, Scale * Scale) + FDiv(t * t, Scale)
    IN  IF AlmostEqualsHalf(a) THEN x
        ELSE IF discriminant < 0 THEN x
        ELSE Clamp(res, 0, Scale)

\* EvaluateCurve without the clamp of b
EvaluateCurve3_bNotClamped(a0, b0, x0) ==
    LET a == Clamp(a0, 0, Scale)
        b == b0
        x == Clamp(x0, 0, Scale)
        discriminant == Discriminant(a, x)
        t == FDiv((a - Sqrt(discriminant)) * Scale, 2 * a - Scale)
        res == FDiv(2 * (Scale - t) * t * b, Scale * Scale) + FDiv(t * t, Scale)
    IN  IF AlmostEqualsHalf(a) THEN x
        ELSE IF discriminant < 0 THEN x
        ELSE Clamp(res, 0, Scale)

\* EvaluateCurve(double a, double b, double x)
EvaluateCurve3(a0, b0, x0) ==
    LET a == Clamp(a0, 0, Scale)
        b == Clamp(b0, 0, Scale)
        x == Clamp(x0, 0, Scale)
        discriminant == Discriminant(a, x)
        t == FDiv((a - Sqrt(discriminant)) * Scale, 2 * a - Scale)
        res == FDiv(2 * (Scale - t) * t * b, Scale * Scale) + FDiv(t * t, Scale)
    IN  IF AlmostEqualsHalf(a) THEN x
        ELSE IF discriminant < 0 THEN x
        ELSE Clamp(res, 0, Scale)

\* the wrapper without the isLinear shortcut
EvaluateCurve_noLinearCase(curve, x) == EvaluateCurve3(curve.a, curve.b, x)

\* EvaluateCurve(const GraphCurveValue& curve, double x)
EvaluateCurve(curve, x) ==
    IF isLinear(curve) THEN x ELSE EvaluateCurve3(curve.a, curve.b, x)

----------------------------------------------------------------------------
(* graph_utils.hpp *)

\* GraphValueAt interpolating from the segment's entry value v instead of vf
GraphValueAt_fromEntryValue(g, p) ==
    LET second == UpperBound(g, p)
    IN  IF DOMAIN g = {} \/ second = Begin(g) \/ ~second.has
        THEN None
        ELSE LET k1 == Prev(g, second).val
                 k2 == second.val
             IN  Some(Lerp(g[k1].v.v, g[k2].v.v,
                           EvaluateCurve(g[k1].curve, Rate(p - k1, k2 - k1))))

\* GraphValueAt(graph, pulse): the continuous value of a timeline of points
GraphValueAt(g, p) ==
    LET second == UpperBound(g, p)
    IN  IF DOMAIN g = {} \/ second = Begin(g) \/ ~second.has
        THEN None
        ELSE LET k1 == Prev(g, second).val
                 k2 == second.val
             IN  Some(Lerp(g[k1].v.vf, g[k2].v.v,
                           EvaluateCurve(g[k1].curve, Rate(p - k1, k2 - k1))))

\* std::map::lower_bound(p): the first key greater than or equal to p
LowerBound(m, p) ==
    LET atOrAbove == {k \in DOMAIN m : k >= p}
    IN  IF atOrAbove = {} THEN None ELSE Some(SetMin(atOrAbove))

\* GraphSectionAt searching with lower_bound in place of upper_bound
GraphSectionAt_lowerBound(gs, p) ==
    LET lb == LowerBound(gs, p)
    IN  IF lb # Begin(gs) THEN Prev(gs, lb) ELSE lb

\* GraphSectionAt(graphSections, pulse), graphSections not empty
GraphSectionAt(gs, p) ==
    LET ub == UpperBound(gs, p)
    IN  IF ub # Begin(gs) THEN Prev(gs, ub) ELSE ub

\* GraphSectionValueAt rejecting the first point's key too (ry <= firstRy)
GraphSectionValueAt_firstExcluded(gs, p) ==
    IF DOMAIN gs = {} THEN None
    ELSE LET it == GraphSectionAt(gs, p)
         IN  IF ~it.has THEN None
             ELSE LET y == it.val
                      graphSection == gs[y]
                      relY == p - y
                  IN  IF Cardinality(DOMAIN graphSection.v) <= 1 THEN None
                      ELSE IF relY <= SetMin(DOMAIN graphSection.v) THEN None
                      ELSE IF relY >= SetMax(DOMAIN graphSection.v) THEN None
                      ELSE Some(GraphValueAt(graphSection.v, relY).val)

\* GraphSectionValueAt(graphSections, pulse)
GraphSectionValueAt(gs, p) ==
    IF DOMAIN gs = {} THEN None
    ELSE LET it == GraphSectionAt(gs, p)
         IN  IF ~it.has THEN None
             ELSE LET y == it.val
                      graphSection == gs[y]
                      relY == p - y
                  IN  IF Cardinality(DOMAIN graphSection.v) <= 1 THEN None
                      ELSE IF relY < SetMin(DOMAIN graphSection.v) THEN None
                      ELSE IF relY >= SetMax(DOMAIN graphSection.v) THEN None
                      ELSE Some(GraphValueAt(graphSection.v, relY).val)

\* GraphSectionValueAtWithDefault testing the value instead of has_value()
GraphSectionValueAtWithDefault_truthy(gs, p, d) ==
    LET sectionValue == GraphSectionValueAt(gs, p)
    IN  IF sectionValue.has /\ sectionValue.val # 0 THEN sectionValue.val ELSE d

\* GraphSectionValueAtWithDefault(graphSections, pulse, defaultValue)
GraphSectionValueAtWithDefault(gs, p, d) ==
    LET sectionValue == GraphSectionValueAt(gs, p)
    IN  IF sectionValue.has THEN sectionValue.val ELSE d

\* GraphPointAt(graphSections, pulse)
GraphPointAt(gs, p) ==
    IF DOMAIN gs = {} THEN None
    ELSE LET it == GraphSectionAt(gs, p)
         IN  IF ~it.has THEN None
             ELSE LET y == it.val
                      graphSection == gs[y]
                      relY == p - y
                  IN  IF relY \notin DOMAIN graphSection.v THEN None
                      ELSE Some(graphSection.v[relY])

----------------------------------------------------------------------------
(* Queries on an outer timeline of sections *)

kLaserXScale1x == 1
kLaserXScale2x == 2

RelKeys == MinRelKey..MaxRelKey
Pulses == 0..MaxPulse
LookupPoints == {PA, PB}
Sections == {[v |-> m, w |-> kLaserXScale1x] : m \in Maps(RelKeys, LookupPoints)}
Lanes == Maps(OuterKeys, Sections)

EmptyContainer == [v |-> <<>>, w |-> kLaserXScale1x]

\* no EvaluateCurve call has been made
CurveIdle == curveArgs = <<>>

\* no ParseLaserSection call has been made
ParseIdle ==
    /\ json = [is_array |-> FALSE, items |-> <<>>]
    /\ itemIdx = 1
    /\ warnings = <<>>
    /\ parsePc = "idle"

\* no ExpandCurveSegments call has been made
ExpandIdle ==
    /\ shape = "Graph"
    /\ graph = EmptyContainer
    /\ subdivisionInterval = 1
    /\ result = EmptyContainer
    /\ itr = None
    /\ ry = 0
    /\ pc = "idle"
    /\ pass = 1

InitLookup ==
    /\ graphSections \in Lanes
    /\ op = "none"
    /\ pulse = 0
    /\ defaultValue = 0
    /\ ret = None
    /\ ExpandIdle
    /\ CurveIdle
    /\ ParseIdle

CallGraphSectionAt(p) ==
    /\ op = "none"
    /\ DOMAIN graphSections # {}
    /\ op' = "GraphSectionAt"
    /\ pulse' = p
    /\ ret' = GraphSectionAt(graphSections, p)
    /\ UNCHANGED <<graphSections, defaultValue, expandVars, parseVars, curveArgs>>

CallGraphSectionValueAt(p) ==
    /\ op = "none"
    /\ op' = "GraphSectionValueAt"
    /\ pulse' = p
    /\ ret' = GraphSectionValueAt(graphSections, p)
    /\ UNCHANGED <<graphSections, defaultValue, expandVars, parseVars, curveArgs>>

CallGraphSectionValueAtWithDefault(p, d) ==
    /\ op = "none"
    /\ op' = "GraphSectionValueAtWithDefault"
    /\ pulse' = p
    /\ defaultValue' = d
    /\ ret' = Some(GraphSectionValueAtWithDefault(graphSections, p, d))
    /\ UNCHANGED <<graphSections, expandVars, parseVars, curveArgs>>

CallGraphPointAt(p) ==
    /\ op = "none"
    /\ op' = "GraphPointAt"
    /\ pulse' = p
    /\ ret' = GraphPointAt(graphSections, p)
    /\ UNCHANGED <<graphSections, defaultValue, expandVars, parseVars, curveArgs>>

\* one query is applied to the drawn timeline
NextLookup ==
    \/ \E p \in Pulses : CallGraphSectionAt(p)
    \/ \E p \in Pulses : CallGraphSectionValueAt(p)
    \/ \E p \in Pulses : \E d \in Defaults : CallGraphSectionValueAtWithDefault(p, d)
    \/ \E p \in Pulses : CallGraphPointAt(p)

SpecLookup == InitLookup /\ [][NextLookup]_vars

----------------------------------------------------------------------------
(* ExpandCurveSegments: the three overloads run the same walk; the          *)
(* LaserSection one also copies the width flag.                            *)

MaxPoints == 3        \* an expanded container holds at most MaxPoints points

Shapes == {"Graph", "GraphSection", "LaserSection"}
Keys == 0..MaxKey
Intervals == (0 - 1)..MaxInterval
Widths(sh) == IF sh = "LaserSection" THEN {kLaserXScale1x, kLaserXScale2x}
              ELSE {kLaserXScale1x}
PointMaps == UNION {[D -> Points] : D \in {E \in SUBSET Keys : Cardinality(E) <= MaxPoints}}
Containers(sh) == {[v |-> m, w |-> x] : m \in PointMaps, x \in Widths(sh)}

\* std::map::insert: keeps the stored value when the key is present
Insert(m, k, x) ==
    IF k \in DOMAIN m THEN m
    ELSE [j \in DOMAIN m \cup {k} |-> IF j = k THEN x ELSE m[j]]

\* std::map::operator[] assignment: overwrites
Assign(m, k, x) == [j \in DOMAIN m \cup {k} |-> IF j = k THEN x ELSE m[j]]

InitExpand ==
    /\ graphSections = <<>>
    /\ op = "none"
    /\ pulse = 0
    /\ defaultValue = 0
    /\ ret = None
    /\ ExpandIdle
    /\ CurveIdle
    /\ ParseIdle

\* ExpandCurveSegments rejecting only negative intervals (subdivisionInterval < 0)
ExpandCall_negativeOnly(sh, g, s) ==
    /\ pc = "idle"
    /\ shape' = sh
    /\ graph' = g
    /\ subdivisionInterval' = s
    /\ IF s < 0
       THEN /\ pc' = "thrown"
            /\ UNCHANGED <<result, itr>>
       ELSE IF DOMAIN g.v = {}
       THEN /\ pc' = "done"
            /\ result' = g
            /\ UNCHANGED itr
       ELSE /\ pc' = "while"
            /\ itr' = Begin(g.v)
            /\ result' = [v |-> Insert(<<>>, Begin(g.v).val, g.v[Begin(g.v).val]),
                          w |-> IF sh = "LaserSection" THEN g.w ELSE kLaserXScale1x]
    /\ UNCHANGED <<ry, pass, lookupVars, parseVars, curveArgs>>

\* ExpandCurveSegments leaving the result's width flag at its default
ExpandCall_widthNotCopied(sh, g, s) ==
    /\ pc = "idle"
    /\ shape' = sh
    /\ graph' = g
    /\ subdivisionInterval' = s
    /\ IF s <= 0
       THEN /\ pc' = "thrown"
            /\ UNCHANGED <<result, itr>>
       ELSE IF DOMAIN g.v = {}
       THEN /\ pc' = "done"
            /\ result' = g
            /\ UNCHANGED itr
       ELSE /\ pc' = "while"
            /\ itr' = Begin(g.v)
            /\ result' = [v |-> Insert(<<>>, Begin(g.v).val, g.v[Begin(g.v).val]),
                          w |-> kLaserXScale1x]
    /\ UNCHANGED <<ry, pass, lookupVars, parseVars, curveArgs>>

\* ExpandCurveSegments without the insertion of the first point
ExpandCall_firstPointNotInserted(sh, g, s) ==
    /\ pc = "idle"
    /\ shape' = sh
    /\ graph' = g
    /\ subdivisionInterval' = s
    /\ IF s <= 0
       THEN /\ pc' = "thrown"
            /\ UNCHANGED <<result, itr>>
       ELSE IF DOMAIN g.v = {}
       THEN /\ pc' = "done"
            /\ result' = g
            /\ UNCHANGED itr
       ELSE /\ pc' = "while"
            /\ itr' = Begin(g.v)
            /\ result' = [v |-> <<>>,
                          w |-> IF sh = "LaserSection" THEN g.w ELSE kLaserXScale1x]
    /\ UNCHANGED <<ry, pass, lookupVars, parseVars, curveArgs>>

\* entry of ExpandCurveSegments up to the first test of the while loop
ExpandCall(sh, g, s) ==
    /\ pc = "idle"
    /\ shape' = sh
    /\ graph' = g
    /\ subdivisionInterval' = s
    /\ IF s <= 0
       THEN /\ pc' = "thrown"
            /\ UNCHANGED <<result, itr>>
       ELSE IF DOMAIN g.v = {}
       THEN /\ pc' = "done"
            /\ result' = g
            /\ UNCHANGED itr
       ELSE /\ pc' = "while"
            /\ itr' = Begin(g.v)
            /\ result' = [v |-> Insert(<<>>, Begin(g.v).val, g.v[Begin(g.v).val]),
                          w |-> IF sh = "LaserSection" THEN g.w ELSE kLaserXScale1x]
    /\ UNCHANGED <<ry, pass, lookupVars, parseVars, curveArgs>>

\* the while loop without the isLinear shortcut: every segment is subdivided
ExpandWhile_noLinearCase ==
    /\ pc = "while"
    /\ LET nextItr == NextItr(graph.v, itr)
       IN  IF ~nextItr.has
           THEN /\ pc' = "done"
                /\ UNCHANGED <<result, itr, ry>>
           ELSE /\ ry' = subdivisionInterval
                /\ pc' = "for"
                /\ UNCHANGED <<result, itr>>
    /\ UNCHANGED <<shape, graph, subdivisionInterval, pass, lookupVars, parseVars, curveArgs>>

\* the while loop whose linear case continues without ++itr
ExpandWhile_noAdvance ==
    /\ pc = "while"
    /\ LET nextItr == NextItr(graph.v, itr)
       IN  IF ~nextItr.has
           THEN /\ pc' = "done"
                /\ UNCHANGED <<result, itr, ry>>
           ELSE IF isLinear(graph.v[itr.val].curve)
           THEN /\ result' = [result EXCEPT !.v = Insert(@, nextItr.val, graph.v[nextItr.val])]
                /\ UNCHANGED <<itr, pc, ry>>
           ELSE /\ ry' = subdivisionInterval
                /\ pc' = "for"
                /\ UNCHANGED <<result, itr>>
    /\ UNCHANGED <<shape, graph, subdivisionInterval, pass, lookupVars, parseVars, curveArgs>>

\* one pass of the while loop's head: break, the linear case, or entry of the for loop
ExpandWhile ==
    /\ pc = "while"
    /\ LET nextItr == NextItr(graph.v, itr)
       IN  IF ~nextItr.has
           THEN /\ pc' = "done"
                /\ UNCHANGED <<result, itr, ry>>
           ELSE IF isLinear(graph.v[itr.val].curve)
           THEN /\ result' = [result EXCEPT !.v = Insert(@, nextItr.val, graph.v[nextItr.val])]
                /\ itr' = nextItr
                /\ UNCHANGED <<pc, ry>>
           ELSE /\ ry' = subdivisionInterval
                /\ pc' = "for"
                /\ UNCHANGED <<result, itr>>
    /\ UNCHANGED <<shape, graph, subdivisionInterval, pass, lookupVars, parseVars, curveArgs>>

\* the for loop running up to and including the segment's end (ry <= segmentLength)
ExpandFor_inclusive ==
    /\ pc = "for"
    /\ LET nextItr == NextItr(graph.v, itr)
           y1 == itr.val
           y2 == nextItr.val
           point1 == graph.v[y1]
           point2 == graph.v[y2]
           segmentLength == y2 - y1
           lerpRate == Rate(ry, segmentLength)
           curveValue == EvaluateCurve(point1.curve, lerpRate)
           interpolatedValue == Lerp(point1.v.vf, point2.v.v, curveValue)
       IN  IF ry <= segmentLength
           THEN /\ result' = [result EXCEPT
                                !.v = Assign(@, y1 + ry, GraphPoint(GraphValue(interpolatedValue)))]
                /\ ry' = ry + subdivisionInterval
                /\ UNCHANGED <<itr, pc>>
           ELSE /\ result' = [result EXCEPT !.v = Insert(@, y2, point2)]
                /\ itr' = nextItr
                /\ pc' = "while"
                /\ UNCHANGED ry
    /\ UNCHANGED <<shape, graph, subdivisionInterval, pass, lookupVars, parseVars, curveArgs>>

\* the for loop interpolating from point1.v.v instead of point1.v.vf
ExpandFor_fromEntryValue ==
    /\ pc = "for"
    /\ LET nextItr == NextItr(graph.v, itr)
           y1 == itr.val
           y2 == nextItr.val
           point1 == graph.v[y1]
           point2 == graph.v[y2]
           segmentLength == y2 - y1
           lerpRate == Rate(ry, segmentLength)
           curveValue == EvaluateCurve(point1.curve, lerpRate)
           interpolatedValue == Lerp(point1.v.v, point2.v.v, curveValue)
       IN  IF ry < segmentLength
           THEN /\ result' = [result EXCEPT
                                !.v = Assign(@, y1 + ry, GraphPoint(GraphValue(interpolatedValue)))]
                /\ ry' = ry + subdivisionInterval
                /\ UNCHANGED <<itr, pc>>
           ELSE /\ result' = [result EXCEPT !.v = Insert(@, y2, point2)]
                /\ itr' = nextItr
                /\ pc' = "while"
                /\ UNCHANGED ry
    /\ UNCHANGED <<shape, graph, subdivisionInterval, pass, lookupVars, parseVars, curveArgs>>

\* one test of the for loop: an inserted sample, or the loop's exit and the segment's end
ExpandFor ==
    /\ pc = "for"
    /\ LET nextItr == NextItr(graph.v, itr)
           y1 == itr.val
           y2 == nextItr.val
           point1 == graph.v[y1]
           point2 == graph.v[y2]
           segmentLength == y2 - y1
           lerpRate == Rate(ry, segmentLength)
           curveValue == EvaluateCurve(point1.curve, lerpRate)
           interpolatedValue == Lerp(point1.v.vf, point2.v.v, curveValue)
       IN  IF ry < segmentLength
           THEN /\ result' = [result EXCEPT
                                !.v = Assign(@, y1 + ry, GraphPoint(GraphValue(interpolatedValue)))]
                /\ ry' = ry + subdivisionInterval
                /\ UNCHANGED <<itr, pc>>
           ELSE /\ result' = [result EXCEPT !.v = Insert(@, y2, point2)]
                /\ itr' = nextItr
                /\ pc' = "while"
                /\ UNCHANGED ry
    /\ UNCHANGED <<shape, graph, subdivisionInterval, pass, lookupVars, parseVars, curveArgs>>

NextExpand ==
    \/ /\ pc = "idle"
       /\ \E sh \in Shapes : \E g \in Containers(sh) : \E s \in Intervals : ExpandCall(sh, g, s)
    \/ ExpandWhile
    \/ ExpandFor

SpecExpand == InitExpand /\ [][NextExpand]_vars

\* a call that has started keeps running: the function is straight-line
\* sequential code, so each enabled step of its loops is eventually taken
SpecExpandFair == SpecExpand /\ WF_vars(ExpandWhile) /\ WF_vars(ExpandFor)

----------------------------------------------------------------------------
(* ExpandCurveSegments applied to its own result *)

\* the caller takes the returned container, to pass it to a second call
ExpandReturn ==
    /\ pc = "done"
    /\ pass = 1
    /\ pc' = "idle"
    /\ pass' = 2
    /\ UNCHANGED <<shape, graph, subdivisionInterval, result, itr, ry,
                   lookupVars, parseVars, curveArgs>>

NextReexpand ==
    \/ /\ pc = "idle"
       /\ pass = 1
       /\ \E sh \in Shapes : \E g \in Containers(sh) : \E s \in Intervals : ExpandCall(sh, g, s)
    \/ ExpandReturn
    \/ /\ pc = "idle"
       /\ pass = 2
       /\ ExpandCall(shape, result, subdivisionInterval)
    \/ ExpandWhile
    \/ ExpandFor

SpecReexpand == InitExpand /\ [][NextReexpand]_vars

----------------------------------------------------------------------------
(* The Curve Evaluator and continuous sampling applied to drawn arguments *)

GridSteps == 10       \* curve arguments are drawn in steps of Scale / GridSteps

\* arguments from -0.2 to 1.2, so that values outside [0,1] are drawn too
CurveInputs == {FDiv(k * Scale, GridSteps) : k \in (0 - 2)..(GridSteps + 2)}

PD == [v |-> [v |-> Scale, vf |-> Scale], curve |-> Linear]
PE == [v |-> [v |-> 2 * Scale, vf |-> 2 * Scale], curve |-> Linear]
ValuePoints == Points \cup {PD, PE}
ValueGraphs == UNION {[D -> ValuePoints] : D \in {E \in SUBSET Keys : Cardinality(E) <= MaxPoints}}

InitEval ==
    /\ graphSections = <<>>
    /\ op = "none"
    /\ pulse = 0
    /\ defaultValue = 0
    /\ ret = None
    /\ ExpandIdle
    /\ CurveIdle
    /\ ParseIdle

\* EvaluateCurve(a, b, x)
CallEvaluateCurve3(a, b, x) ==
    /\ op = "none"
    /\ op' = "EvaluateCurve3"
    /\ curveArgs' = [a |-> a, b |-> b, x |-> x]
    /\ ret' = Some(EvaluateCurve3(a, b, x))
    /\ UNCHANGED <<graphSections, pulse, defaultValue, expandVars, parseVars>>

\* EvaluateCurve(curve, x)
CallEvaluateCurve(curve, x) ==
    /\ op = "none"
    /\ op' = "EvaluateCurve"
    /\ curveArgs' = [curve |-> curve, x |-> x]
    /\ ret' = Some(EvaluateCurve(curve, x))
    /\ UNCHANGED <<graphSections, pulse, defaultValue, expandVars, parseVars>>

\* GraphValueAt(graph, pulse)
CallGraphValueAt(g, p) ==
    /\ op = "none"
    /\ op' = "GraphValueAt"
    /\ graph' = [v |-> g, w |-> kLaserXScale1x]
    /\ pulse' = p
    /\ ret' = GraphValueAt(g, p)
    /\ UNCHANGED <<graphSections, defaultValue, shape, subdivisionInterval, result,
                   itr, ry, pc, pass, curveArgs, parseVars>>

NextEval ==
    \/ /\ op = "none"
       /\ \E a \in CurveInputs : \E b \in CurveInputs : \E x \in CurveInputs :
             CallEvaluateCurve3(a, b, x)
    \/ /\ op = "none"
       /\ \E a \in CurveInputs : \E b \in CurveInputs : \E x \in CurveInputs :
             CallEvaluateCurve([a |-> a, b |-> b], x)
    \/ /\ op = "none"
       /\ \E g \in ValueGraphs : \E p \in Pulses : CallGraphValueAt(g, p)

SpecEval == InitEval /\ [][NextEval]_vars

----------------------------------------------------------------------------
(* ParseLaserSection: the ingestion of a laser lane from decoded JSON *)

MaxItems == 2         \* the JSON array holds at most MaxItems items

\* an entry of item[1]: ok stands for point.is_array() && point.size() >= 2
BadPoint == [ok |-> FALSE, ry |-> 0, point |-> PA]
JsonPoint(r, pt) == [ok |-> TRUE, ry |-> r, point |-> pt]

\* the values drawn for item[1]
JsonPointLists ==
    { [is_array |-> FALSE, items |-> <<>>],
      [is_array |-> TRUE, items |-> <<>>],
      [is_array |-> TRUE, items |-> <<JsonPoint(0, PA)>>],
      [is_array |-> TRUE, items |-> <<JsonPoint(0, PA), JsonPoint(0, PB)>>],
      [is_array |-> TRUE, items |-> <<BadPoint, JsonPoint(0 - 1, PB), JsonPoint(1, PA)>>] }

\* the values drawn for item[2]
JsonWidths == 0..3

\* an item of j: ok stands for item.is_array() && item.size() >= 2
BadItem == [ok |-> FALSE, size |-> 0, pulse |-> 0,
            points |-> [is_array |-> FALSE, items |-> <<>>], w |-> 0]
JsonItems ==
    {BadItem}
    \cup {[ok |-> TRUE, size |-> 2, pulse |-> y, points |-> l, w |-> 0] :
             y \in OuterKeys, l \in JsonPointLists}
    \cup {[ok |-> TRUE, size |-> 3, pulse |-> y, points |-> l, w |-> x] :
             y \in OuterKeys, l \in JsonPointLists, x \in JsonWidths}

\* the values drawn for j
JsonInputs ==
    {[is_array |-> FALSE, items |-> <<>>]}
    \cup {[is_array |-> TRUE, items |-> q] :
             q \in UNION {[1..n -> JsonItems] : n \in 0..MaxItems}}

\* the loop over item[1]: section.v[ry] = graphPoint for every well-formed point
RECURSIVE ParsePoints(_, _)
ParsePoints(items, v) ==
    IF items = <<>> THEN v
    ELSE ParsePoints(Tail(items),
                     IF Head(items).ok THEN Assign(v, Head(items).ry, Head(items).point)
                     ELSE v)

InitParse ==
    /\ graphSections = <<>>
    /\ op = "none"
    /\ pulse = 0
    /\ defaultValue = 0
    /\ ret = None
    /\ ExpandIdle
    /\ CurveIdle
    /\ ParseIdle

\* entry of ParseLaserSection: the is_array test
ParseLaserSectionCall(jv) ==
    /\ parsePc = "idle"
    /\ json' = jv
    /\ parsePc' = IF jv.is_array THEN "loop" ELSE "done"
    /\ UNCHANGED <<itemIdx, warnings, lookupVars, expandVars, curveArgs>>

\* one pass of the loop over the items of j
ParseLaserSectionItem ==
    /\ parsePc = "loop"
    /\ IF itemIdx > Len(json.items)
       THEN /\ parsePc' = "done"
            /\ UNCHANGED <<graphSections, itemIdx, warnings>>
       ELSE LET item == json.items[itemIdx]
                section == [v |-> IF item.points.is_array
                                  THEN ParsePoints(item.points.items, <<>>)
                                  ELSE <<>>,
                            w |-> IF item.size >= 3 THEN item.w ELSE kLaserXScale1x]
            IN  /\ IF item.ok
                   THEN /\ graphSections' = Assign(graphSections, item.pulse, section)
                        /\ UNCHANGED warnings
                   ELSE /\ warnings' = Append(warnings, "Invalid laser section format")
                        /\ UNCHANGED graphSections
                /\ itemIdx' = itemIdx + 1
                /\ UNCHANGED parsePc
    /\ UNCHANGED <<json, op, pulse, defaultValue, ret, expandVars, curveArgs>>

NextParse ==
    \/ /\ parsePc = "idle"
       /\ \E jv \in JsonInputs : ParseLaserSectionCall(jv)
    \/ ParseLaserSectionItem

SpecParse == InitParse /\ [][NextParse]_vars

----------------------------------------------------------------------------
(* Properties of Segment Lookup and the Value Sampler (SpecLookup) *)

\* the keys of m that are at or before p
KeysAtOrBefore(m, p) == {k \in DOMAIN m : k <= p}

\* the section the queries work on: the floor entry, else the first entry
GoverningKey(gs, p) ==
    IF KeysAtOrBefore(gs, p) # {} THEN SetMax(KeysAtOrBefore(gs, p))
    ELSE SetMin(DOMAIN gs)

\* C1: when some key <= pulse exists, GraphSectionAt returns the entry with
\* the greatest key <= pulse.
C1_FloorRule ==
    (op = "GraphSectionAt" /\ KeysAtOrBefore(graphSections, pulse) # {})
        => /\ ret.has
           /\ ret.val \in KeysAtOrBefore(graphSections, pulse)
           /\ \A k \in KeysAtOrBefore(graphSections, pulse) : k <= ret.val

\* a query on a stored key that has a later key after it, answered with that key
C1_Witness ==
    /\ op = "GraphSectionAt"
    /\ DOMAIN graphSections = {1, 3}
    /\ pulse = 1
    /\ ret = Some(1)

\* C2 (as claimed): for a pulse strictly before the first key of a non-empty
\* container, GraphSectionAt reports "none".
C2_NoneBeforeFirstKey ==
    (op = "GraphSectionAt" /\ pulse < SetMin(DOMAIN graphSections)) => ret = None

\* C3: GraphSectionValueAt is undefined exactly when the container is empty,
\* or the section it works on has at most one point, or the relative pulse is
\* before that section's first key or at or after its last key.
C3_UndefinedCases ==
    op = "GraphSectionValueAt" =>
        (ret = None <=>
            \/ DOMAIN graphSections = {}
            \/ LET y == GoverningKey(graphSections, pulse)
                   keys == DOMAIN graphSections[y].v
               IN  \/ Cardinality(keys) <= 1
                   \/ pulse - y < SetMin(keys)
                   \/ pulse - y >= SetMax(keys))

\* a value returned at the first point's relative key of a two-point section
C3_Witness ==
    /\ op = "GraphSectionValueAt"
    /\ ret.has
    /\ KeysAtOrBefore(graphSections, pulse) # {}
    /\ LET y == GoverningKey(graphSections, pulse)
       IN  /\ Cardinality(DOMAIN graphSections[y].v) = 2
           /\ pulse - y = SetMin(DOMAIN graphSections[y].v)

\* C4 (as claimed): a returned value is the continuous value of the section
\* selected by the floor rule, taken at pulse minus that section's start key.
C4_ValueOfFloorSection ==
    (op = "GraphSectionValueAt" /\ ret.has) =>
        /\ KeysAtOrBefore(graphSections, pulse) # {}
        /\ LET k == SetMax(KeysAtOrBefore(graphSections, pulse))
           IN  ret = GraphValueAt(graphSections[k].v, pulse - k)

\* C5: GraphSectionValueAtWithDefault returns the default when
\* GraphSectionValueAt is undefined and GraphSectionValueAt's value otherwise.
C5_DefaultOnlyWhenUndefined ==
    op = "GraphSectionValueAtWithDefault" =>
        LET sectionValue == GraphSectionValueAt(graphSections, pulse)
        IN  /\ ~sectionValue.has => ret = Some(defaultValue)
            /\ sectionValue.has => ret = sectionValue

\* a defined value 0 returned although the default is not 0
C5_Witness ==
    /\ op = "GraphSectionValueAtWithDefault"
    /\ GraphSectionValueAt(graphSections, pulse) = Some(0)
    /\ defaultValue # 0
    /\ ret = Some(0)

\* C6 (as claimed): GraphPointAt returns the point the floor section stores at
\* pulse minus its start key, and "none" when the container is empty or that
\* section stores no point at that relative key.
C6_ExactPointOfFloorSection ==
    op = "GraphPointAt" =>
        IF KeysAtOrBefore(graphSections, pulse) = {} THEN ret = None
        ELSE LET k == SetMax(KeysAtOrBefore(graphSections, pulse))
                 points == graphSections[k].v
             IN  IF pulse - k \in DOMAIN points THEN ret = Some(points[pulse - k])
                 ELSE ret = None

----------------------------------------------------------------------------
(* Properties of the Curve Expander (SpecExpand) *)

\* C7: a call with subdivisionInterval <= 0 ends in the precondition failure
\* and returns no container, for every shape and every container.
C7_NonPositiveIntervalThrows ==
    (pc # "idle" /\ subdivisionInterval <= 0) => (pc = "thrown" /\ result = EmptyContainer)

\* interval 0 rejected for an empty laser section
C7_Witness ==
    /\ pc = "thrown"
    /\ shape = "LaserSection"
    /\ subdivisionInterval = 0
    /\ DOMAIN graph.v = {}

\* C8: every input point is in the output at its key, unchanged, and no
\* inserted sample ever replaces a point copied from the input.
C8_ControlPointsKept ==
    /\ \A k \in DOMAIN result.v \cap DOMAIN graph.v : result.v[k] = graph.v[k]
    /\ pc = "done" => DOMAIN graph.v \subseteq DOMAIN result.v

\* a finished expansion that inserted samples into a container holding a slam point
C8_Witness ==
    /\ pc = "done"
    /\ DOMAIN result.v # DOMAIN graph.v
    /\ \E k \in DOMAIN graph.v : graph.v[k].v.v # graph.v[k].v.vf

\* the input key before k, and the input key after k
KeyBefore(g, k) == SetMax({j \in DOMAIN g : j < k})
KeyAfter(g, k) == SetMin({j \in DOMAIN g : j > k})

\* k1 + n*s for n >= 1 and n*s < k2 - k1, over the consecutive pairs (k1, k2)
\* whose first point is curved
SampleKeys(g, s) ==
    {k \in SetMin(DOMAIN g)..SetMax(DOMAIN g) :
        /\ k \notin DOMAIN g
        /\ ~isLinear(g[KeyBefore(g, k)].curve)
        /\ (k - KeyBefore(g, k)) % s = 0}

\* C9: the output's keys are the input keys and, inside each segment that
\* leaves a curved point at k1, the keys k1 + n*s below the segment's end.
C9_KeySet ==
    pc = "done" =>
        DOMAIN result.v =
            IF DOMAIN graph.v = {} THEN {}
            ELSE DOMAIN graph.v \cup SampleKeys(graph.v, subdivisionInterval)

\* an expansion with a curved segment that got samples and a linear segment,
\* with room for samples, that got none
C9_Witness ==
    /\ pc = "done"
    /\ \E k \in DOMAIN result.v : k \notin DOMAIN graph.v
    /\ \E k \in DOMAIN graph.v :
          /\ isLinear(graph.v[k].curve)
          /\ k # SetMax(DOMAIN graph.v)
          /\ KeyAfter(graph.v, k) - k > subdivisionInterval

\* C10: an inserted point has v = vf, the linear sentinel as curve, and the
\* value lerp(p1.vf, p2.v, evaluate(p1.curve, ry / (k2 - k1))).
C10_InsertedPoint ==
    pc = "done" =>
        \A k \in DOMAIN result.v \ DOMAIN graph.v :
            LET k1 == KeyBefore(graph.v, k)
                k2 == KeyAfter(graph.v, k)
                p1 == graph.v[k1]
                p2 == graph.v[k2]
                x == EvaluateCurve(p1.curve, Rate(k - k1, k2 - k1))
            IN  /\ result.v[k].v.v = result.v[k].v.vf
                /\ isLinear(result.v[k].curve)
                /\ result.v[k].v.v = Lerp(p1.v.vf, p2.v.v, x)

\* a sample inserted inside a curved segment between two slam points
C10_Witness ==
    /\ pc = "done"
    /\ \E k \in DOMAIN result.v \ DOMAIN graph.v :
          LET p1 == graph.v[KeyBefore(graph.v, k)]
              p2 == graph.v[KeyAfter(graph.v, k)]
          IN  /\ p1.v.v # p1.v.vf
              /\ p2.v.v # p2.v.vf
              /\ result.v[k].v.v # p1.v.vf
              /\ result.v[k].v.v # p2.v.v

\* every point of the container has the linear sentinel as its curve
AllLinear(g) == \A k \in DOMAIN g : isLinear(g[k].curve)

\* C11: for a positive interval, a container whose points are all linear
\* (the empty and the single-point container included) is returned as it is.
C11_AllLinearUnchanged ==
    (pc = "done" /\ AllLinear(graph.v)) => result = graph

\* an all-linear container with a segment longer than the interval, returned
C11_Witness ==
    /\ pc = "done"
    /\ AllLinear(graph.v)
    /\ Cardinality(DOMAIN graph.v) >= 2
    /\ SetMax(DOMAIN graph.v) - SetMin(DOMAIN graph.v) > subdivisionInterval
    /\ result = graph

\* C12: the LaserSection overload returns the input's width flag w, on the
\* empty, the all-linear and the curved path.
C12_WidthCopied ==
    (shape = "LaserSection" /\ pc \in {"while", "for", "done"}) => result.w = graph.w

\* a 2x-wide laser section with a curved segment, expanded with samples
C12_Witness ==
    /\ pc = "done"
    /\ shape = "LaserSection"
    /\ graph.w = kLaserXScale2x
    /\ result.w = kLaserXScale2x
    /\ DOMAIN result.v # DOMAIN graph.v

\* C18 (as claimed): for a pulse strictly before the first section's start key,
\* GraphSectionValueAt and GraphPointAt report "no value", whatever relative
\* keys the first section holds.
C18_NoValueBeforeFirstSection ==
    (/\ op \in {"GraphSectionValueAt", "GraphPointAt"}
     /\ DOMAIN graphSections # {}
     /\ pulse < SetMin(DOMAIN graphSections)) => ret = None

\* the samples the output holds strictly inside the segment leaving k1
SamplesInside(k1) ==
    {k \in DOMAIN result.v : k1 < k /\ k < KeyAfter(graph.v, k1)}

\* ceil(n / d) for n, d > 0
CeilDiv(n, d) == (n + d - 1) \div d

\* C20: a call with a positive interval reaches its return; the walk's
\* iterator only moves forward, ry grows by the interval at every pass of the
\* inner loop, and a curved segment of length len receives exactly
\* ceil(len / interval) - 1 samples.
C20_Terminates ==
    /\ (pc \in {"while", "for"}) ~> (pc = "done")
    /\ [][(pc = "for" /\ pc' = "for")
             => (ry' = ry + subdivisionInterval /\ ry' > ry)]_vars
    /\ [][(pc \in {"while", "for"} /\ itr' # itr)
             => (itr'.has /\ itr'.val = KeyAfter(graph.v, itr.val))]_vars
    /\ [](pc = "done" =>
            \A k1 \in DOMAIN graph.v :
                (k1 # SetMax(DOMAIN graph.v) /\ ~isLinear(graph.v[k1].curve)) =>
                    Cardinality(SamplesInside(k1)) =
                        CeilDiv(KeyAfter(graph.v, k1) - k1, subdivisionInterval) - 1)

\* a finished expansion of a curved segment whose length is no multiple of the
\* interval and that received a sample
C20_Witness ==
    /\ pc = "done"
    /\ \E k1 \in DOMAIN graph.v :
          /\ k1 # SetMax(DOMAIN graph.v)
          /\ ~isLinear(graph.v[k1].curve)
          /\ (KeyAfter(graph.v, k1) - k1) % subdivisionInterval # 0
          /\ SamplesInside(k1) # {}

----------------------------------------------------------------------------
(* Properties of the Curve Evaluator and of continuous sampling (SpecEval) *)

InUnit(x) == 0 <= x /\ x <= Scale

\* C13: for b and x in [0,1], EvaluateCurve(0.5, b, x) returns x.
C13_HalfIsIdentity ==
    (/\ op = "EvaluateCurve3"
     /\ 2 * curveArgs.a = Scale
     /\ InUnit(curveArgs.b)
     /\ InUnit(curveArgs.x)) => ret = Some(curveArgs.x)

\* a = 0.5 with x different from a and from b, answered with x
C13_Witness ==
    /\ op = "EvaluateCurve3"
    /\ 2 * curveArgs.a = Scale
    /\ InUnit(curveArgs.b)
    /\ InUnit(curveArgs.x)
    /\ curveArgs.x # curveArgs.a
    /\ curveArgs.x # curveArgs.b
    /\ ret = Some(curveArgs.x)

\* C14: for a and b in [0,1] with a # 0.5, EvaluateCurve(a, b, 0) returns 0.
C14_ZeroAtStart ==
    (/\ op = "EvaluateCurve3"
     /\ InUnit(curveArgs.a)
     /\ InUnit(curveArgs.b)
     /\ 2 * curveArgs.a # Scale
     /\ curveArgs.x = 0) => ret = Some(0)

\* a strictly between 0 and 0.5 and b > 0 at x = 0, answered with 0
C14_Witness ==
    /\ op = "EvaluateCurve3"
    /\ curveArgs.a > 0
    /\ 2 * curveArgs.a < Scale
    /\ curveArgs.b > 0
    /\ curveArgs.b <= Scale
    /\ curveArgs.x = 0
    /\ ret = Some(0)

\* C15: the wrapper returns x unchanged for the linear sentinel, and
\* EvaluateCurve(curve.a, curve.b, x) for every other descriptor.
C15_WrapperShortCircuit ==
    op = "EvaluateCurve" =>
        IF isLinear(curveArgs.curve) THEN ret = Some(curveArgs.x)
        ELSE ret = Some(EvaluateCurve3(curveArgs.curve.a, curveArgs.curve.b, curveArgs.x))

\* the linear sentinel with an x above 1, returned without clamping
C15_Witness ==
    /\ op = "EvaluateCurve"
    /\ isLinear(curveArgs.curve)
    /\ curveArgs.x > Scale
    /\ ret = Some(curveArgs.x)

\* C16: EvaluateCurve(a, b, x) returns a result in [0,1], the same as for
\* the arguments clamped to [0,1], also for arguments outside [0,1].
C16_ClampedInputsAndResult ==
    op = "EvaluateCurve3" =>
        /\ ret.has
        /\ InUnit(ret.val)
        /\ ret.val = EvaluateCurve3(Clamp(curveArgs.a, 0, Scale),
                                    Clamp(curveArgs.b, 0, Scale),
                                    Clamp(curveArgs.x, 0, Scale))

\* all three arguments outside [0,1], answered inside [0,1]
C16_Witness ==
    /\ op = "EvaluateCurve3"
    /\ ~InUnit(curveArgs.a)
    /\ ~InUnit(curveArgs.b)
    /\ ~InUnit(curveArgs.x)
    /\ InUnit(ret.val)

\* the scenario timeline {0: (v=1, vf=1, linear), 2: (v=2, vf=2)}
C17_Scenario == (0 :> PD) @@ (2 :> PE)

\* C17: for consecutive points p1 at k1 and p2 at k2 and k1 <= pulse < k2,
\* GraphValueAt is lerp(p1.vf, p2.v, evaluate(p1.curve, (pulse - k1) / (k2 - k1)));
\* halfway through the scenario timeline it is 1.5.
C17_ContinuousSampling ==
    op = "GraphValueAt" =>
        LET g == graph.v
            after == {k \in DOMAIN g : k > pulse}
        IN  /\ (KeysAtOrBefore(g, pulse) # {} /\ after # {}) =>
                   LET k1 == SetMax(KeysAtOrBefore(g, pulse))
                       k2 == SetMin(after)
                       x == EvaluateCurve(g[k1].curve, Rate(pulse - k1, k2 - k1))
                   IN  ret = Some(Lerp(g[k1].v.vf, g[k2].v.v, x))
            /\ (g = C17_Scenario /\ pulse = 1) => ret = Some((3 * Scale) \div 2)

\* the scenario timeline sampled halfway
C17_Witness ==
    /\ op = "GraphValueAt"
    /\ graph.v = C17_Scenario
    /\ pulse = 1
    /\ ret = Some((3 * Scale) \div 2)

\* C22: the discriminant of the clamped arguments is never negative, for the
\* call made and for every a and x in [0,1] at the model's resolution, so
\* the test `discriminant < 0.0` never succeeds and the square root is taken
\* of a number in [0,1]
C22_DiscriminantNonNegative ==
    /\ op = "none" =>
           \A a \in 0..Scale : \A x \in 0..Scale :
               Discriminant(a, x) >= 0 /\ Discriminant(a, x) <= Scale * Scale
    /\ op = "EvaluateCurve3" =>
           LET a == Clamp(curveArgs.a, 0, Scale)
               x == Clamp(curveArgs.x, 0, Scale)
           IN  /\ Discriminant(a, x) >= 0
               /\ Discriminant(a, x) <= Scale * Scale

\* a call with a and x above 1, clamped to a = x = 1, where the discriminant
\* is at its least, 0
C22_Witness ==
    /\ op = "EvaluateCurve3"
    /\ curveArgs.a > Scale
    /\ curveArgs.x > Scale
    /\ Discriminant(Clamp(curveArgs.a, 0, Scale), Clamp(curveArgs.x, 0, Scale)) = 0
    /\ ret.has

----------------------------------------------------------------------------
(* Properties of the ingestion of laser sections (SpecParse) *)

\* C19 (as claimed): every laser section of the lane has w in {1, 2}.
C19_WidthEnumerated ==
    \A y \in DOMAIN graphSections :
        graphSections[y].w \in {kLaserXScale1x, kLaserXScale2x}

----------------------------------------------------------------------------
(* Properties of a repeated expansion (SpecReexpand) *)

\* C21: a second ExpandCurveSegments call, on the first call's result and
\* with the same interval, returns its argument: while it runs, every point
\* of its result is the argument's point at that key (no point inserted, no
\* point changed), and at its end the result equals the argument
C21_Idempotent ==
    (pass = 2 /\ pc \in {"while", "for", "done"}) =>
        /\ DOMAIN result.v \subseteq DOMAIN graph.v
        /\ \A k \in DOMAIN result.v : result.v[k] = graph.v[k]
        /\ result.w = graph.w
        /\ (pc = "done" => result = graph)

\* a second call has ended on a first result that holds inserted samples and
\* a curved point that is not the last one
C21_Witness ==
    /\ pass = 2
    /\ pc = "done"
    /\ Cardinality(DOMAIN graph.v) > MaxPoints
    /\ \E k \in DOMAIN graph.v :
           k # SetMax(DOMAIN graph.v) /\ ~isLinear(graph.v[k].curve)

====
